---- MODULE Spec2Model ----
(***************************************************************************)
(* Model of cpbar (src/src/lib.rs): ProgressBar<Iter, Bound>, an iterator  *)
(* decorator that prints a status line on every call of next().            *)
(*                                                                         *)
(* The program is single threaded.  Each public operation (with_bounds,    *)
(* with_delims, next) is one action.  The terminal is the variable out,    *)
(* the values handed back to the caller are the variable ret, and log is   *)
(* the order in which the operations and their effects happened.           *)
(***************************************************************************)
EXTENDS Integers, Sequences, FiniteSets, TLC

VARIABLES
    src,      \* the producer handed to ProgressBar::new (never changes)
    iter,     \* ProgressBar.iter, the wrapped producer
    index,    \* ProgressBar.index
    start,    \* ProgressBar.start
    bound,    \* ProgressBar.bound: the Unbounded or the Bounded type state
    now,      \* the clock read by std::time::Instant::now()
    out,      \* lines printed on the terminal
    ret,      \* results returned by the calls of next() that returned
    log,      \* operations called and effects performed, in order
    fault     \* "none", or the panic that ended the process

vars == <<src, iter, index, start, bound, now, out, ret, log, fault>>

----------------------------------------------------------------------------
(* Bounds of the model *)

MaxLen == 4          \* longest finite producer of Spec
MaxTotal == 32       \* longest finite producer of SpecWide
MaxExtra == 2        \* calls of next() made beyond the length of a finite producer
MaxInfCalls == 4     \* calls of next() made on an infinite producer
MaxDelimCalls == 2   \* calls of with_delims
MaxFrom == 1         \* largest first value of an infinite producer

(* Program constants *)

MAX_COLUMN_WIDTH == 30

FILLED == "#"        \* the glyph U+2593
EMPTY == "."         \* the glyph U+2591

DefaultDelims == <<"[", "]">>

DelimChoices == {<<"<", ">">>, <<"(", ")">>}

----------------------------------------------------------------------------
(* The wrapped producer.  A finite one is a vec::IntoIter / slice::Iter    *)
(* (an ExactSizeIterator) over a prefix of the vector of the crate's       *)
(* example; an infinite one is a RangeFrom, which has no len().            *)

Data == <<1, 2, 4, 5, 6, 6, 7, 8, 9, 0>>

Element(i) == Data[((i - 1) % Len(Data)) + 1]

VecIter(n) == [exact |-> TRUE, rest |-> [i \in 1..n |-> Element(i)], cur |-> 0]

RangeFrom(lo) == [exact |-> FALSE, rest |-> <<>>, cur |-> lo]

None == [some |-> FALSE, val |-> 0]

Some(x) == [some |-> TRUE, val |-> x]

\* Iterator::next of the wrapped producer: the result and the producer afterwards
IterNext(it) ==
    IF it.exact
    THEN IF it.rest = <<>>
         THEN [res |-> None, it |-> it]
         ELSE [res |-> Some(Head(it.rest)), it |-> [it EXCEPT !.rest = Tail(it.rest)]]
    ELSE [res |-> Some(it.cur), it |-> [it EXCEPT !.cur = it.cur + 1]]

\* ExactSizeIterator::len of the wrapped producer
IterLen(it) == Len(it.rest)

----------------------------------------------------------------------------
(* usize arithmetic as display uses it.  PANIC stands for the panic of the *)
(* operation; no line is printed when an argument of println! panics.      *)

PANIC == -1

\* variant: a division that yields 0 on a zero divisor
CheckedDiv_zero_guarded(a, b) == IF b = 0 THEN 0 ELSE a \div b

CheckedDiv(a, b) == IF b = 0 THEN PANIC ELSE a \div b

\* a - b on usize: "attempt to subtract with overflow" in a debug build; in a
\* release build the difference wraps and str::repeat panics on the capacity
CheckedSub(a, b) == IF b > a THEN PANIC ELSE a - b

Repeat(glyph, n) == [i \in 1..n |-> glyph]

Unbounded == [tag |-> "Unbounded", bound |-> 0, delims |-> <<"", "">>]

Bounded(n, d) == [tag |-> "Bounded", bound |-> n, delims |-> d]

\* variant: divides before it multiplies
Percent_div_first(idx, total) ==
    IF total = 0 THEN PANIC ELSE (idx \div total) * 100

Percent(idx, total) == CheckedDiv(idx * 100, total)

Ticks(percent) == (MAX_COLUMN_WIDTH * percent) \div 100

\* number of filled glyphs
FilledColumns(idx, total, percent) ==
    IF total < MAX_COLUMN_WIDTH THEN idx ELSE Ticks(percent)

\* variant: the full-resolution bar whatever the total
EmptyColumns_full_resolution(idx, total, percent) == CheckedSub(total, idx)

\* number of empty glyphs
EmptyColumns(idx, total, percent) ==
    IF total < MAX_COLUMN_WIDTH
    THEN CheckedSub(total, idx)
    ELSE CheckedSub(MAX_COLUMN_WIDTH, Ticks(percent))

PanicLine(why) == [kind |-> "panic", why |-> why]

\* <Bounded as ProgressBarDisplay>::display
BoundedDisplay(b, idx, elapsed) ==
    LET percent == Percent(idx, b.bound) IN
    IF percent = PANIC THEN PanicLine("div_by_zero")
    ELSE LET filled == FilledColumns(idx, b.bound, percent)
             empty == EmptyColumns(idx, b.bound, percent)
         IN  IF empty = PANIC THEN PanicLine("overflow")
             ELSE [kind |-> "Bounded",
                   percent |-> percent,
                   bar |-> <<b.delims[1]>> \o Repeat(FILLED, filled)
                           \o Repeat(EMPTY, empty) \o <<b.delims[2]>>,
                   index |-> idx,
                   bound |-> b.bound,
                   elapsed |-> elapsed]

\* <Unbounded as ProgressBarDisplay>::display
UnboundedDisplay(idx, elapsed) ==
    [kind |-> "Unbounded", index |-> idx, elapsed |-> elapsed]

\* self.bound.display(&self), dispatched on the type state
Display(b, idx, elapsed) ==
    IF b.tag = "Bounded" THEN BoundedDisplay(b, idx, elapsed)
    ELSE UnboundedDisplay(idx, elapsed)

----------------------------------------------------------------------------
(* Operations *)

CountEv(e) == Cardinality({i \in 1..Len(log) : log[i].ev = e})

CallCap == IF src.exact THEN IterLen(src) + MaxExtra ELSE MaxInfCalls

\* ProgressBar::new(p)
New(p) ==
    /\ src = p
    /\ iter = p
    /\ index = 0
    /\ now = 0
    /\ start = 0
    /\ bound = Unbounded
    /\ out = <<[kind |-> "blank"]>>
    /\ ret = <<>>
    /\ log = <<>>
    /\ fault = "none"

Init ==
    \E p \in {VecIter(n) : n \in 0..MaxLen} \cup {RangeFrom(lo) : lo \in 0..MaxFrom} :
        New(p)

InitWide == \E p \in {VecIter(n) : n \in 0..MaxTotal} : New(p)

\* variant: takes the length by counting, which consumes the producer
with_bounds_counting ==
    /\ fault = "none"
    /\ bound.tag = "Unbounded"
    /\ iter.exact
    /\ now' = now + 1
    /\ bound' = Bounded(IterLen(iter), DefaultDelims)
    /\ iter' = [iter EXCEPT !.rest = <<>>]
    /\ start' = now'
    /\ log' = Append(log, [ev |-> "with_bounds"])
    /\ UNCHANGED <<src, index, out, ret, fault>>

\* variant: restarts the counter at 0
with_bounds_reset_index ==
    /\ fault = "none"
    /\ bound.tag = "Unbounded"
    /\ iter.exact
    /\ now' = now + 1
    /\ bound' = Bounded(IterLen(iter), DefaultDelims)
    /\ index' = 0
    /\ start' = now'
    /\ log' = Append(log, [ev |-> "with_bounds"])
    /\ UNCHANGED <<src, iter, out, ret, fault>>

\* ProgressBar::with_bounds, offered only on an Unbounded bar over an
\* ExactSizeIterator
with_bounds ==
    /\ fault = "none"
    /\ bound.tag = "Unbounded"
    /\ iter.exact
    /\ now' = now + 1
    /\ bound' = Bounded(IterLen(iter), DefaultDelims)
    /\ start' = now'
    /\ log' = Append(log, [ev |-> "with_bounds"])
    /\ UNCHANGED <<src, iter, index, out, ret, fault>>

\* variant: stores the pair the wrong way round
with_delims_swapped(d) ==
    /\ fault = "none"
    /\ bound.tag = "Bounded"
    /\ CountEv("with_delims") < MaxDelimCalls
    /\ now' = now + 1
    /\ bound' = [bound EXCEPT !.delims = <<d[2], d[1]>>]
    /\ log' = Append(log, [ev |-> "with_delims", delims |-> d])
    /\ UNCHANGED <<src, iter, index, start, out, ret, fault>>

\* ProgressBar::with_delims, offered only on a Bounded bar
with_delims(d) ==
    /\ fault = "none"
    /\ bound.tag = "Bounded"
    /\ CountEv("with_delims") < MaxDelimCalls
    /\ now' = now + 1
    /\ bound' = [bound EXCEPT !.delims = d]
    /\ log' = Append(log, [ev |-> "with_delims", delims |-> d])
    /\ UNCHANGED <<src, iter, index, start, out, ret, fault>>

\* variant: increments the counter before it renders
next_inc_first ==
    /\ fault = "none"
    /\ CountEv("next") < CallCap
    /\ now' = now + 1
    /\ LET line == Display(bound, index + 1, now' - start)
           got == IterNext(iter)
       IN  IF line.kind = "panic"
           THEN /\ fault' = line.why
                /\ index' = index + 1
                /\ log' = log \o <<[ev |-> "next"], [ev |-> "inc", index |-> index']>>
                /\ UNCHANGED <<iter, out, ret>>
           ELSE /\ out' = Append(out, line)
                /\ index' = index + 1
                /\ iter' = got.it
                /\ ret' = Append(ret, got.res)
                /\ log' = log \o <<[ev |-> "next"],
                                   [ev |-> "inc", index |-> index'],
                                   [ev |-> "render", index |-> line.index],
                                   [ev |-> "fetch", res |-> got.res]>>
                /\ UNCHANGED fault
    /\ UNCHANGED <<src, start, bound>>

\* variant: counts the items received, not the calls
next_count_items ==
    /\ fault = "none"
    /\ CountEv("next") < CallCap
    /\ now' = now + 1
    /\ LET line == Display(bound, index, now' - start)
           got == IterNext(iter)
       IN  IF line.kind = "panic"
           THEN /\ fault' = line.why
                /\ log' = Append(log, [ev |-> "next"])
                /\ UNCHANGED <<iter, index, out, ret>>
           ELSE /\ out' = Append(out, line)
                /\ index' = IF got.res.some THEN index + 1 ELSE index
                /\ iter' = got.it
                /\ ret' = Append(ret, got.res)
                /\ log' = log \o <<[ev |-> "next"],
                                   [ev |-> "render", index |-> line.index]>>
                              \o (IF got.res.some
                                  THEN <<[ev |-> "inc", index |-> index']>>
                                  ELSE <<>>)
                              \o <<[ev |-> "fetch", res |-> got.res]>>
                /\ UNCHANGED fault
    /\ UNCHANGED <<src, start, bound>>

\* variant: asks the producer first and renders only when it got an item
next_render_on_item ==
    /\ fault = "none"
    /\ CountEv("next") < CallCap
    /\ now' = now + 1
    /\ LET line == Display(bound, index, now' - start)
           got == IterNext(iter)
       IN  IF ~got.res.some
           THEN /\ iter' = got.it
                /\ index' = index + 1
                /\ ret' = Append(ret, got.res)
                /\ log' = log \o <<[ev |-> "next"],
                                   [ev |-> "fetch", res |-> got.res],
                                   [ev |-> "inc", index |-> index']>>
                /\ UNCHANGED <<out, fault>>
           ELSE IF line.kind = "panic"
           THEN /\ fault' = line.why
                /\ iter' = got.it
                /\ log' = log \o <<[ev |-> "next"], [ev |-> "fetch", res |-> got.res]>>
                /\ UNCHANGED <<index, out, ret>>
           ELSE /\ out' = Append(out, line)
                /\ index' = index + 1
                /\ iter' = got.it
                /\ ret' = Append(ret, got.res)
                /\ log' = log \o <<[ev |-> "next"],
                                   [ev |-> "fetch", res |-> got.res],
                                   [ev |-> "render", index |-> line.index],
                                   [ev |-> "inc", index |-> index']>>
                /\ UNCHANGED fault
    /\ UNCHANGED <<src, start, bound>>

\* <ProgressBar as Iterator>::next
next ==
    /\ fault = "none"
    /\ CountEv("next") < CallCap
    /\ now' = now + 1
    /\ LET line == Display(bound, index, now' - start)
           got == IterNext(iter)
       IN  IF line.kind = "panic"
           THEN /\ fault' = line.why
                /\ log' = Append(log, [ev |-> "next"])
                /\ UNCHANGED <<iter, index, out, ret>>
           ELSE /\ out' = Append(out, line)
                /\ index' = index + 1
                /\ iter' = got.it
                /\ ret' = Append(ret, got.res)
                /\ log' = log \o <<[ev |-> "next"],
                                   [ev |-> "render", index |-> line.index],
                                   [ev |-> "inc", index |-> index'],
                                   [ev |-> "fetch", res |-> got.res]>>
                /\ UNCHANGED fault
    /\ UNCHANGED <<src, start, bound>>

Next ==
    \/ with_bounds
    \/ \E d \in DelimChoices : with_delims(d)
    \/ next

NextWide ==
    \/ with_bounds
    \/ next

Spec == Init /\ [][Next]_vars

SpecWide == InitWide /\ [][NextWide]_vars

----------------------------------------------------------------------------
(* Vocabulary of the properties *)

Last(s) == s[Len(s)]

\* the status lines printed so far (the first line of out is the blank line
\* printed by new)
Renders == Tail(out)

Glyphs(bar, g) == Cardinality({i \in 1..Len(bar) : bar[i] = g})

RECURSIVE DirectRun(_, _)
\* the results of n calls of next() made on the producer it itself
DirectRun(it, n) ==
    IF n = 0 THEN <<>>
    ELSE LET got == IterNext(it) IN <<got.res>> \o DirectRun(got.it, n - 1)

RECURSIVE DirectRest(_, _)
\* the producer it after n calls of next() made on it
DirectRest(it, n) ==
    IF n = 0 THEN it ELSE DirectRest(IterNext(it).it, n - 1)

\* the render, increment and retrieval events of the log
Effects == SelectSeq(log, LAMBDA e : e.ev \in {"render", "inc", "fetch"})

RECURSIVE CurrentDelims(_)
\* the pair given by the most recent with_delims call of the log l
CurrentDelims(l) ==
    IF l = <<>> THEN DefaultDelims
    ELSE IF Last(l).ev = "with_delims" THEN Last(l).delims
    ELSE CurrentDelims(SubSeq(l, 1, Len(l) - 1))

Max(a, b) == IF a > b THEN a ELSE b

Min(a, b) == IF a < b THEN a ELSE b

\* this step is a call of the operation e
Called(e) == Len(log') > Len(log) /\ log'[Len(log) + 1].ev = e

----------------------------------------------------------------------------
\* C1: the N-th status line printed since new() shows the counter N-1, on
\* finite and infinite producers, in Unbounded and in Bounded mode.
C1_NthRenderShowsNMinus1 ==
    \A n \in 1..Len(Renders) : Renders[n].index = n - 1

\* an infinite producer without with_bounds: the 4th render shows 3
C1_Witness ==
    /\ ~src.exact
    /\ Len(Renders) = 4
    /\ Renders[4].kind = "Unbounded"
    /\ Renders[4].index = 3

----------------------------------------------------------------------------
----------------------------------------------------------------------------
----------------------------------------------------------------------------
\* a bar put in Bounded mode before any retrieval, over N >= 1 elements, has
\* just reported exhaustion for the first time
DrivenToExhaustion ==
    /\ IterLen(src) >= 1
    /\ log # <<>>
    /\ log[1].ev = "with_bounds"
    /\ Len(ret) = IterLen(src) + 1
    /\ ~Last(ret).some

\* C4 as stated: after a bounded bar over N elements was driven until
\* exhaustion, the final render shows counter N-1 and no render shows N.
C4_FinalRenderShowsNMinus1 ==
    DrivenToExhaustion =>
        /\ Renders # <<>>
        /\ Last(Renders).index = IterLen(src) - 1
        /\ \A n \in 1..Len(Renders) : Renders[n].index # IterLen(src)

\* C4 amended: the final render, made by the call that reports exhaustion,
\* shows counter N at 100% with no empty glyph; the render before it, made by
\* the call that returns the last element, shows counter N-1 (for N = 10:
\* 90%, 9 filled glyphs and 1 empty glyph, 9/10).
C4_FinalRenderShowsN ==
    DrivenToExhaustion =>
        LET N == IterLen(src)
            final == Last(Renders)
            before == Renders[N]
        IN  /\ Len(Renders) = N + 1
            /\ final.kind = "Bounded"
            /\ final.index = N
            /\ final.bound = N
            /\ final.percent = 100
            /\ Glyphs(final.bar, FILLED) = Min(N, MAX_COLUMN_WIDTH)
            /\ Glyphs(final.bar, EMPTY) = 0
            /\ before.index = N - 1
            /\ before.bound = N
            /\ N = 10 => /\ before.percent = 90
                         /\ Glyphs(before.bar, FILLED) = 9
                         /\ Glyphs(before.bar, EMPTY) = 1

\* the 10-element bar of the scenario has reported exhaustion
C4_Witness ==
    /\ DrivenToExhaustion
    /\ IterLen(src) = 10
    /\ Last(Renders).index = 10

----------------------------------------------------------------------------
\* C5: in Bounded mode with total >= 1, for every counter from 0 to total, the
\* filled glyphs plus the empty glyphs of the rendered bar number total when
\* total < 30 and exactly 30 when total >= 30.
C5_BarWidth ==
    \A n \in 1..Len(Renders) :
        LET r == Renders[n] IN
        (r.kind = "Bounded" /\ r.bound >= 1 /\ r.index <= r.bound) =>
            /\ Glyphs(r.bar, FILLED) + Glyphs(r.bar, EMPTY)
                  = IF r.bound < MAX_COLUMN_WIDTH THEN r.bound ELSE MAX_COLUMN_WIDTH
            /\ Len(r.bar) = 2 + Glyphs(r.bar, FILLED) + Glyphs(r.bar, EMPTY)

\* a total above 30 was rendered at every counter from 0 to the total
C5_Witness ==
    /\ IterLen(src) = MAX_COLUMN_WIDTH + 1
    /\ Len(Renders) = MAX_COLUMN_WIDTH + 2
    /\ Renders[1].kind = "Bounded"
    /\ Last(Renders).index = Last(Renders).bound
    /\ Glyphs(Renders[16].bar, EMPTY) > 0
    /\ Glyphs(Renders[16].bar, FILLED) > 0

----------------------------------------------------------------------------
\* C6: when the total captured by with_bounds is 0, a call of next() panics on
\* the division by zero of the render: the counter is not incremented, the
\* producer is not asked, nothing is printed and nothing is returned.
C6_ZeroTotalFaults ==
    [][(bound.tag = "Bounded" /\ bound.bound = 0 /\ Called("next")) =>
          /\ fault' = "div_by_zero"
          /\ index' = index
          /\ iter' = iter
          /\ ret' = ret
          /\ out' = out
          /\ Len(log') = Len(log) + 1]_vars

\* the first call of next() on an empty bounded bar has panicked
C6_Witness ==
    /\ IterLen(src) = 0
    /\ src.exact
    /\ fault = "div_by_zero"
    /\ index = 0
    /\ ret = <<>>
    /\ CountEv("next") = 1

----------------------------------------------------------------------------
\* C7: with_bounds called after k >= 0 retrievals made in Unbounded mode keeps
\* the counter k and the producer (which yields the items not yet retrieved),
\* takes as total the producer's remaining length at that moment and as glyphs
\* the pair '[' ']'; once Bounded the bar stays Bounded and its total never
\* changes.
C7_WithBoundsCarriesOver ==
    [][/\ (bound.tag = "Unbounded" /\ bound'.tag = "Bounded") =>
            /\ index' = index
            /\ index = Len(ret)
            /\ iter' = iter
            /\ iter' = DirectRest(src, index)
            /\ bound'.bound = IterLen(iter)
            /\ bound'.bound = Max(0, IterLen(src) - index)
            /\ bound'.delims = DefaultDelims
            /\ out' = out
       /\ bound.tag = "Bounded" =>
            /\ bound'.tag = "Bounded"
            /\ bound'.bound = bound.bound]_vars

\* with_bounds was called after 2 retrievals with 2 items left, and one more
\* retrieval was made since
C7_Witness ==
    /\ IterLen(src) = 4
    /\ bound.tag = "Bounded"
    /\ bound.bound = 2
    /\ index = 3
    /\ Renders[2].kind = "Unbounded"
    /\ Renders[3].kind = "Bounded"

----------------------------------------------------------------------------
\* C8: for a fixed total >= 1 in Bounded mode the rendered percent is
\* floor(counter * 100 / total); it is non-decreasing as the counter goes from
\* 0 to total, is 0 at counter 0 and is 100 exactly when counter = total.
C8_PercentMonotone ==
    \A n \in 1..Len(Renders) :
        LET r == Renders[n] IN
        (r.kind = "Bounded" /\ r.bound >= 1 /\ r.index <= r.bound) =>
            /\ r.percent * r.bound <= r.index * 100
            /\ r.index * 100 < (r.percent + 1) * r.bound
            /\ r.index = 0 => r.percent = 0
            /\ r.percent = 100 <=> r.index = r.bound
            /\ \A m \in 1..n :
                  Renders[m].kind = "Bounded" =>
                      /\ Renders[m].bound = r.bound
                      /\ Renders[m].percent <= r.percent

\* a total of 7 was rendered from counter 0 to counter 7, with percents that
\* are not multiples of one another
C8_Witness ==
    /\ Len(Renders) = 8
    /\ Renders[1].kind = "Bounded"
    /\ Renders[1].bound = 7
    /\ Renders[1].percent = 0
    /\ Renders[4].percent = 42
    /\ Renders[8].percent = 100

----------------------------------------------------------------------------
\* C9: in Bounded mode every render opens and closes the bar with the pair
\* given by the most recent with_delims call ('[' and ']' if there was none),
\* however with_delims calls and retrievals interleave; with_delims leaves the
\* counter, the total and the producer unchanged.
C9_RenderUsesLatestDelims ==
    [][/\ (bound.tag = "Bounded" /\ Len(out') > Len(out)) =>
            /\ Head(Last(out').bar) = CurrentDelims(log)[1]
            /\ Last(Last(out').bar) = CurrentDelims(log)[2]
       /\ Called("with_delims") =>
            /\ index' = index
            /\ iter' = iter
            /\ bound'.bound = bound.bound
            /\ bound'.tag = bound.tag
            /\ out' = out
            /\ ret' = ret]_vars

\* renders with the default pair, then '<' '>', then '(' ')', the two
\* with_delims calls being separated by a retrieval
C9_Witness ==
    /\ Len(Renders) = 3
    /\ Renders[1].kind = "Bounded"
    /\ Head(Renders[1].bar) = "[" /\ Last(Renders[1].bar) = "]"
    /\ Head(Renders[2].bar) = "<" /\ Last(Renders[2].bar) = ">"
    /\ Head(Renders[3].bar) = "(" /\ Last(Renders[3].bar) = ")"

----------------------------------------------------------------------------
\* C10: in Bounded mode with total >= 1 the counter is at most the total at
\* every render, so the number of empty glyphs is never negative and the
\* render never panics, whatever operations came before.
C10_RenderNeverFaults ==
    (bound.tag = "Bounded" /\ bound.bound >= 1) =>
        /\ fault = "none"
        /\ \A n \in 1..Len(Renders) :
              Renders[n].kind = "Bounded" => Renders[n].index <= Renders[n].bound

====
